---- MODULE Spec2Model ----
(***************************************************************************)
(* Model of the JSON compare view (src/src/views/JsonCompareView.vue):     *)
(* the value model, isDeepEqual, buildDiff, setValueAtPath,                *)
(* removeValueAtPath, and the compareJson / applyChange handlers.          *)
(*                                                                         *)
(* JavaScript values are records [t, n, a, o]:                             *)
(*   t  the kind: "undef" (undefined), "hole" (an empty array slot),       *)
(*      "null", "bool", "num", "str", "arr", "obj";                        *)
(*   n  the payload of a scalar;                                           *)
(*   a  the indexed slots of an array, slot i of JavaScript at a[i+1];     *)
(*   o  the own string-keyed properties in Object.keys order, a sequence   *)
(*      of [k, v] (the keys of an object; the non-index properties of an   *)
(*      array).                                                            *)
(* A text of a text area is modelled by what JSON.parse makes of it.       *)
(***************************************************************************)
EXTENDS Integers, Sequences, FiniteSets, TLC

\* ------------------------------------------------------------------ bounds
\* The longest array and the largest number of keys of a generated document.
MaxLen == 2

\* ------------------------------------------------------------------ values
Mk(t, n, a, o) == [t |-> t, n |-> n, a |-> a, o |-> o]
Undef == Mk("undef", 0, <<>>, <<>>)
Hole == Mk("hole", 0, <<>>, <<>>)
Null == Mk("null", 0, <<>>, <<>>)
Num(n) == Mk("num", n, <<>>, <<>>)
Str(n) == Mk("str", n, <<>>, <<>>)
Bool(n) == Mk("bool", n, <<>>, <<>>)
Arr(a) == Mk("arr", 0, a, <<>>)
Obj(o) == Mk("obj", 0, <<>>, o)
KV(k, v) == [k |-> k, v |-> v]

\* A path segment (PathSegment = string | number).
Key(k) == [isIdx |-> FALSE, key |-> k, idx |-> 0]
Idx(i) == [isIdx |-> TRUE, key |-> "", idx |-> i]

\* String(head): the property name a segment addresses.
SegName(seg) == IF seg.isIdx THEN ToString(seg.idx) ELSE seg.key

IsUndefined(v) == v.t = "undef"
isArray(v) == v.t = "arr"
isObjectLike(v) == v.t \in {"arr", "obj"}
TypeOf(v) ==
  CASE v.t = "undef" -> "undefined"
    [] v.t = "bool" -> "boolean"
    [] v.t = "num" -> "number"
    [] v.t = "str" -> "string"
    [] OTHER -> "object"

\* A slot read: a hole reads as undefined.
Read(slot) == IF slot.t = "hole" THEN Undef ELSE slot

\* The position of name k among the properties o, 0 if it is not there.
PropPos(o, k) ==
  IF \E i \in 1..Len(o) : o[i].k = k
  THEN CHOOSE i \in 1..Len(o) : o[i].k = k
  ELSE 0

\* An index segment addresses slot idx+1 of an array when it is in range.
InRange(v, seg) == seg.isIdx /\ seg.idx >= 0 /\ seg.idx < Len(v.a)

\* `key in value` for a container.
HasKey(v, seg) ==
  IF isArray(v) /\ seg.isIdx
  THEN InRange(v, seg) /\ v.a[seg.idx + 1].t # "hole"
  ELSE PropPos(v.o, SegName(seg)) # 0

\* value[key]: undefined when the property is not there.
Get(v, seg) ==
  IF isArray(v) /\ seg.isIdx
  THEN IF InRange(v, seg) THEN Read(v.a[seg.idx + 1]) ELSE Undef
  ELSE IF PropPos(v.o, SegName(seg)) # 0
       THEN v.o[PropPos(v.o, SegName(seg))].v
       ELSE Undef

\* Object.keys(value): the indices of the slots that are not holes, ascending,
\* then the string-keyed properties in their order.
ObjectKeys(v) ==
  LET idxs == SelectSeq([i \in 1..Len(v.a) |-> i], LAMBDA i : v.a[i].t # "hole")
  IN [j \in 1..Len(idxs) |-> Idx(idxs[j] - 1)]
     \o [j \in 1..Len(v.o) |-> Key(v.o[j].k)]

\* left === right on values that are never the same object: true of two
\* primitives of the same type and value only.
StrictEq_Loose(l, r) == ~isObjectLike(l) /\ ~isObjectLike(r) /\ l.n = r.n
StrictEq(l, r) == ~isObjectLike(l) /\ ~isObjectLike(r) /\ l.t = r.t /\ l.n = r.n

\* JSON.stringify(value): inside an array a hole or undefined is written as
\* null and the string-keyed properties of the array are not written; a
\* property of an object whose value is undefined is not written.  The result
\* is the value JSON.parse reads back from the text.
RECURSIVE Jsonify(_)
Jsonify(v) ==
  IF v.t = "arr"
  THEN Arr([i \in 1..Len(v.a) |->
             IF v.a[i].t \in {"hole", "undef"} THEN Null ELSE Jsonify(v.a[i])])
  ELSE IF v.t = "obj"
  THEN LET kept == SelectSeq(v.o, LAMBDA p : p.v.t # "undef")
       IN Obj([i \in 1..Len(kept) |-> KV(kept[i].k, Jsonify(kept[i].v))])
  ELSE v

\* typeof structuredClone === 'function' in the runtime the view is loaded in.
VARIABLE hasStructuredClone

\* cloneDeep: structuredClone keeps holes, undefined slots and every own
\* property, so the copy is the same value; without it the copy is what
\* JSON.parse reads back from JSON.stringify(value).
cloneDeep(v) ==
  IF IsUndefined(v) THEN v
  ELSE IF hasStructuredClone THEN v
  ELSE Jsonify(v)

RECURSIVE isDeepEqual_KeysOfLeft(_, _)
isDeepEqual_KeysOfLeft(left, right) ==
  IF StrictEq(left, right) THEN TRUE
  ELSE IF TypeOf(left) # TypeOf(right) THEN FALSE
  ELSE IF ~isObjectLike(left) \/ ~isObjectLike(right) THEN FALSE
  ELSE IF isArray(left) # isArray(right) THEN FALSE
  ELSE LET keysLeft == ObjectKeys(left)
       IN \A i \in 1..Len(keysLeft) :
            /\ HasKey(right, keysLeft[i])
            /\ isDeepEqual_KeysOfLeft(Get(left, keysLeft[i]), Get(right, keysLeft[i]))
RECURSIVE isDeepEqual(_, _)
isDeepEqual(left, right) ==
  IF StrictEq(left, right) THEN TRUE
  ELSE IF TypeOf(left) # TypeOf(right) THEN FALSE
  ELSE IF ~isObjectLike(left) \/ ~isObjectLike(right) THEN FALSE
  ELSE IF isArray(left) # isArray(right) THEN FALSE
  ELSE LET keysLeft == ObjectKeys(left)
           keysRight == ObjectKeys(right)
       IN IF Len(keysLeft) # Len(keysRight) THEN FALSE
          ELSE \A i \in 1..Len(keysLeft) :
                 /\ HasKey(right, keysLeft[i])
                 /\ isDeepEqual(Get(left, keysLeft[i]), Get(right, keysLeft[i]))

\* path.join('.')
RECURSIVE JoinPath(_)
JoinPath(path) ==
  IF path = <<>> THEN ""
  ELSE IF Len(path) = 1 THEN SegName(path[1])
  ELSE SegName(path[1]) \o "." \o JoinPath(Tail(path))

createEntry_NullForAbsent(status, path, valueLeft, valueRight, diffId0) ==
  [id |-> [status |-> status, joined |-> JoinPath(path), n |-> diffId0],
   path |-> path,
   status |-> status,
   valueLeft |-> IF IsUndefined(valueLeft) THEN Null ELSE valueLeft,
   valueRight |-> IF IsUndefined(valueRight) THEN Null ELSE valueRight]
createEntry(status, path, valueLeft, valueRight, diffId0) ==
  [id |-> [status |-> status, joined |-> JoinPath(path), n |-> diffId0],
   path |-> path,
   status |-> status,
   valueLeft |-> valueLeft,
   valueRight |-> valueRight]

\* new Set([...keysLeft, ...keysRight]): each key once, at its first place.
KeyUnion_KeepRepeats(seen, more) == seen \o more
RECURSIVE KeyUnion(_, _)
KeyUnion(seen, more) ==
  IF more = <<>> THEN seen
  ELSE IF \E i \in 1..Len(seen) : seen[i] = Head(more)
       THEN KeyUnion(seen, Tail(more))
       ELSE KeyUnion(Append(seen, Head(more)), Tail(more))

\* The keys buildDiff visits under two containers of one kind.
UnionKeys_LeftOnly(left, right) == ObjectKeys(left)
UnionKeys(left, right) == KeyUnion(<<>>, ObjectKeys(left) \o ObjectKeys(right))

\* Array.isArray(left) !== Array.isArray(right)
KindsDiffer_Never(left, right) == FALSE
KindsDiffer(left, right) == isArray(left) # isArray(right)

\* buildDiff with the module counter diffId passed along: the entries made by
\* one call get the ids diffId0, diffId0 + 1, ... in the order they are made.
\* (Number(key) of a string-keyed property of an array is NaN; the model keeps
\* the property name as the segment.)
RECURSIVE buildDiffAt(_, _, _, _)
RECURSIVE buildDiffKeys(_, _, _, _, _)
buildDiffAt(left, right, path, diffId0) ==
  IF IsUndefined(left) /\ IsUndefined(right) THEN <<>>
  ELSE IF IsUndefined(left)
       THEN <<createEntry("added", path, left, cloneDeep(right), diffId0)>>
  ELSE IF IsUndefined(right)
       THEN <<createEntry("removed", path, cloneDeep(left), right, diffId0)>>
  ELSE IF isDeepEqual(left, right) THEN <<>>
  ELSE IF isObjectLike(left) /\ isObjectLike(right)
       THEN IF KindsDiffer(left, right)
            THEN <<createEntry("modified", path, cloneDeep(left), cloneDeep(right), diffId0)>>
            ELSE buildDiffKeys(left, right, path, UnionKeys(left, right), diffId0)
  ELSE <<createEntry("modified", path, cloneDeep(left), cloneDeep(right), diffId0)>>

buildDiffKeys(left, right, path, keys, diffId0) ==
  IF keys = <<>> THEN <<>>
  ELSE LET sub == buildDiffAt(Get(left, Head(keys)), Get(right, Head(keys)),
                              Append(path, Head(keys)), diffId0)
       IN sub \o buildDiffKeys(left, right, path, Tail(keys), diffId0 + Len(sub))

buildDiff(left, right) == buildDiffAt(left, right, <<>>, 0)

\* ------------------------------------------------------------ patch applier
createEmptyRoot(path) ==
  IF path = <<>> THEN Obj(<<>>)
  ELSE IF path[1].isIdx THEN Arr(<<>>) ELSE Obj(<<>>)

\* [...base]: the slots of an array in order, a hole read as undefined; the
\* string-keyed properties of the array are not copied.
Spread(a) == [i \in 1..Len(a) |-> Read(a[i])]

\* arrayBase[index] = child: past the end, the slots in between stay holes.
ArrAssign(a, index, child) ==
  IF index < Len(a)
  THEN [a EXCEPT ![index + 1] = child]
  ELSE a \o [i \in 1..(index - Len(a)) |-> Hole] \o <<child>>

\* arrayBase.splice(index, 1)
Splice(a, index) == SubSeq(a, 1, index) \o SubSeq(a, index + 2, Len(a))

\* The largest index whose name is told from the other property names.
MaxIndexName == 2 * MaxLen + 4
IsIndexName(k) == \E i \in 0..MaxIndexName : k = ToString(i)
IndexOfName(k) == CHOOSE i \in 0..MaxIndexName : k = ToString(i)

\* objectBase[key] = child: a property that is there keeps its place; a new
\* index-like name goes among the index-like names in ascending order, which
\* come first; any other new name goes last.
ObjAssign_NoNewKey(o, k, child) ==
  IF PropPos(o, k) # 0 THEN [o EXCEPT ![PropPos(o, k)] = KV(k, child)] ELSE o
ObjAssign(o, k, child) ==
  IF PropPos(o, k) # 0 THEN [o EXCEPT ![PropPos(o, k)] = KV(k, child)]
  ELSE IF IsIndexName(k)
       THEN LET before == SelectSeq(o, LAMBDA p :
                            IsIndexName(p.k) /\ IndexOfName(p.k) < IndexOfName(k))
                after == SelectSeq(o, LAMBDA p :
                            ~(IsIndexName(p.k) /\ IndexOfName(p.k) < IndexOfName(k)))
            IN before \o <<KV(k, child)>> \o after
       ELSE Append(o, KV(k, child))

\* const { [key]: removedValue, ...restObject } = objectBase
ObjDelete(o, k) == SelectSeq(o, LAMBDA p : p.k # k)

RECURSIVE setValueAtPath(_, _, _)
setValueAtPath(input, path, value) ==
  IF path = <<>> THEN cloneDeep(value)
  ELSE LET head == Head(path)
           rest == Tail(path)
           base == IF isObjectLike(input) THEN cloneDeep(input) ELSE createEmptyRoot(path)
       IN IF isArray(base)
          THEN LET arrayBase == Spread(base.a)
                   old == IF InRange(base, head) THEN arrayBase[head.idx + 1] ELSE Undef
                   child == IF rest # <<>> THEN setValueAtPath(old, rest, value)
                            ELSE cloneDeep(value)
               IN IF head.isIdx
                  THEN Arr(ArrAssign(arrayBase, head.idx, child))
                  ELSE Mk("arr", 0, arrayBase, <<KV(head.key, child)>>)
          ELSE LET objectBase == base.o
                   key == SegName(head)
                   child == IF rest # <<>>
                            THEN setValueAtPath(Get(base, Key(key)), rest, value)
                            ELSE cloneDeep(value)
               IN Obj(ObjAssign(objectBase, key, child))

RECURSIVE removeValueAtPath(_, _)
removeValueAtPath(input, path) ==
  IF path = <<>> THEN Null
  ELSE IF ~isObjectLike(input) THEN input
  ELSE LET base == cloneDeep(input)
           head == Head(path)
           rest == Tail(path)
       IN IF isArray(base)
          THEN LET arrayBase == Spread(base.a)
               IN IF rest = <<>>
                  THEN IF InRange(base, head)
                       THEN Arr(Splice(arrayBase, head.idx))
                       ELSE Arr(arrayBase)
                  ELSE IF InRange(base, head)
                       THEN Arr([arrayBase EXCEPT ![head.idx + 1] =
                                   removeValueAtPath(arrayBase[head.idx + 1], rest)])
                       ELSE Arr(arrayBase)
          ELSE LET objectBase == base.o
                   key == SegName(head)
               IN IF PropPos(objectBase, key) = 0 THEN Obj(objectBase)
                  ELSE IF rest = <<>> THEN Obj(ObjDelete(objectBase, key))
                  ELSE Obj([objectBase EXCEPT ![PropPos(objectBase, key)] =
                              KV(key, removeValueAtPath(objectBase[PropPos(objectBase, key)].v, rest))])

\* ---------------------------------------------------------------- texts
\* A text: blank, not JSON, or the JSON text of doc.
Blank == [kind |-> "blank", doc |-> Null]
Invalid == [kind |-> "invalid", doc |-> Null]
JsonText(d) == [kind |-> "json", doc |-> d]

\* stringifyJson(value) = JSON.stringify(value ?? null, null, 2)
stringifyJson(v) == JsonText(Jsonify(IF IsUndefined(v) THEN Null ELSE v))

\* text.trim() is truthy
NonBlank(text) == text.kind # "blank"
\* JSON.parse(text) throws
ParseThrows(text) == text.kind = "invalid"
\* text.trim() ? JSON.parse(text) : null
ParseOrNull(text) == IF NonBlank(text) THEN text.doc ELSE Null

\* ------------------------------------------------------------ documents
ArrScalars == {Null, Num(1)}
ObjScalars == {Num(1)}
KeyNames == <<"a", "b", "c", "d", "e", "f">>

\* The sequences over S of length at most MaxLen.
SeqsUpTo(S) == UNION {[1..n -> S] : n \in 0..MaxLen}

\* The arrays of scalars, and the objects of scalars under the first MaxLen
\* key names in any order of insertion.
GenArrays == {Arr(a) : a \in SeqsUpTo(ArrScalars)}
GenObjects ==
  {Obj([i \in 1..Len(p[1]) |-> KV(KeyNames[p[1][i]], p[2][i])]) :
     p \in {q \in SeqsUpTo(1..MaxLen) \X SeqsUpTo(ObjScalars) :
              /\ Len(q[1]) = Len(q[2])
              /\ \A i, j \in 1..Len(q[1]) : q[1][i] = q[1][j] => i = j}}

\* The documents of the scenarios of the specification, and nested ones.
DocLeft123 == Arr(<<Num(1), Num(2), Num(3)>>)
DocRight0123 == Arr(<<Num(0), Num(1), Num(2), Num(3)>>)
DocObjA1 == Obj(<<KV("a", Num(1))>>)
DocArr1 == Arr(<<Num(1)>>)
DocScenarioLeft == Obj(<<KV("a", Num(1)), KV("b", Obj(<<KV("c", Num(2))>>))>>)
DocScenarioRight ==
  Obj(<<KV("a", Num(1)), KV("b", Obj(<<KV("c", Num(3))>>)), KV("d", Num(4))>>)
MoreDocs ==
  {Arr(<<Num(2)>>),
   Arr(<<Num(1), Num(2)>>),
   Arr(<<Num(2), Null>>),
   Obj(<<KV("a", Num(2))>>),
   Obj(<<KV("a", Num(1)), KV("b", Num(2))>>),
   Obj(<<KV("b", Num(2)), KV("a", Num(2))>>),
   Obj(<<KV("c", Null), KV("a", Num(1))>>)}
NestedDocs ==
  {Obj(<<KV("a", Arr(<<>>))>>),
   Obj(<<KV("a", Arr(<<Num(1), Num(2)>>))>>),
   Obj(<<KV("a", Obj(<<KV("b", Num(1))>>))>>),
   Arr(<<Arr(<<>>), Num(1)>>),
   Arr(<<Arr(<<Num(1), Num(2)>>)>>),
   Arr(<<Obj(<<KV("a", Num(1))>>), Str(1), Bool(1)>>)}

\* The documents typed into the view.
Docs ==
  {Null, Num(1), Str(1)} \cup GenArrays \cup GenObjects \cup MoreDocs \cup NestedDocs
    \cup {DocScenarioLeft, DocScenarioRight}
Texts == {Blank, Invalid} \cup {JsonText(d) : d \in Docs}

\* The documents buildDiff is run on alone: longer arrays and every scalar kind.
DiffDocs ==
  Docs \cup {DocLeft123, DocRight0123, Num(2), Str(2), Bool(0), Bool(1),
             Arr(<<Num(1), Num(2), Num(3), Num(0)>>),
             Arr(<<Str(1), Num(1), Null>>),
             Arr(<<Bool(1), Num(1), Str(1), Num(2)>>)}

\* ------------------------------------------------------------ the view
VARIABLES
  leftInput, rightInput,    \* the texts of the two text areas
  leftError, rightError,    \* TRUE when the error message of the side is set
  diffEntries,              \* the displayed list
  hasCompared,
  leftParsed, rightParsed,  \* the document pair
  diffId,                   \* the module counter of entry ids
  leftTyped, rightTyped,    \* the side's text area has been typed into
  last,                     \* the last handler run and its arguments
  pending,                  \* the positions of the list still to apply (SpecFold)
  foldDir,                  \* the direction every entry is applied in (SpecFold)
  foldLow,                  \* the lowest position of a removal applied so far,
                            \* 0 once a removal was applied after a lower one
  anchor,                   \* a document pair held before a merge (SpecMerging)
  pTree,                    \* the tree the patch applier returned last (SpecPatch)
  pPrev,                    \* the tree it was given
  pOrig,                    \* the tree before a removal that was then restored
  pPath, pValue,            \* the path and the value it was given
  pOp                       \* the call made last

vars == <<leftInput, rightInput, leftError, rightError, diffEntries, hasCompared,
          leftParsed, rightParsed, diffId, leftTyped, rightTyped, last,
          pending, foldDir, foldLow, hasStructuredClone, anchor,
          pTree, pPrev, pOrig, pPath, pValue, pOp>>
patchVars == <<pTree, pPrev, pOrig, pPath, pValue, pOp>>
foldVars == <<pending, foldDir, foldLow, hasStructuredClone>>
NoAnchor == [set |-> FALSE, left |-> Null, right |-> Null]

\* No call of the patch applier made outside the view.
PatchIdle ==
  /\ pTree = Null /\ pPrev = Null /\ pOrig = Null
  /\ pPath = <<>> /\ pValue = Null /\ pOp = "none"

NoEntry == createEntry("none", <<>>, Undef, Undef, 0)
Last(op, entry, direction, before) ==
  [op |-> op, entry |-> entry, direction |-> direction, before |-> before]

hasDiffs_Always == TRUE
hasDiffs == Len(diffEntries) > 0

\* diffSummary: the reduce over the entries, acc[entry.status] += 1.
RECURSIVE SummaryFold_Assign(_, _)
SummaryFold_Assign(acc, entries) ==
  IF entries = <<>> THEN acc
  ELSE SummaryFold_Assign([acc EXCEPT ![Head(entries).status] = 1], Tail(entries))
RECURSIVE SummaryFold(_, _)
SummaryFold(acc, entries) ==
  IF entries = <<>> THEN acc
  ELSE SummaryFold([acc EXCEPT ![Head(entries).status] = @ + 1], Tail(entries))
diffSummary == SummaryFold([added |-> 0, removed |-> 0, modified |-> 0], diffEntries)

Init ==
  /\ leftInput = Blank
  /\ rightInput = Blank
  /\ leftError = FALSE
  /\ rightError = FALSE
  /\ diffEntries = <<>>
  /\ hasCompared = FALSE
  /\ leftParsed = Null
  /\ rightParsed = Null
  /\ diffId = 0
  /\ leftTyped = FALSE
  /\ rightTyped = FALSE
  /\ last = Last("init", NoEntry, "none", 0)
  /\ pending = {}
  /\ foldDir = "none"
  /\ foldLow = 0
  /\ hasStructuredClone \in BOOLEAN
  /\ anchor = NoAnchor
  /\ PatchIdle

\* v-model on the left text area; each text area is typed into once.
EditLeft(text) ==
  /\ ~leftTyped
  /\ leftInput' = text
  /\ leftTyped' = TRUE
  /\ last' = Last("edit", NoEntry, "none", Len(diffEntries))
  /\ UNCHANGED <<rightInput, leftError, rightError, diffEntries, hasCompared,
                 leftParsed, rightParsed, diffId, rightTyped, foldVars, anchor, patchVars>>

EditRight(text) ==
  /\ ~rightTyped
  /\ rightInput' = text
  /\ rightTyped' = TRUE
  /\ last' = Last("edit", NoEntry, "none", Len(diffEntries))
  /\ UNCHANGED <<leftInput, leftError, rightError, diffEntries, hasCompared,
                 leftParsed, rightParsed, diffId, leftTyped, foldVars, anchor, patchVars>>

compareJson_KeepList ==
  LET lErr == NonBlank(leftInput) /\ ParseThrows(leftInput)
      rErr == NonBlank(rightInput) /\ ParseThrows(rightInput)
      parsedLeft == ParseOrNull(leftInput)
      parsedRight == ParseOrNull(rightInput)
      entries == buildDiff(parsedLeft, parsedRight)
  IN /\ leftError' = lErr
     /\ rightError' = rErr
     /\ hasCompared' = TRUE
     /\ last' = Last("compare", NoEntry, "none", Len(diffEntries))
     /\ IF lErr \/ rErr
        THEN UNCHANGED <<diffEntries, leftParsed, rightParsed, diffId>>
        ELSE /\ leftParsed' = parsedLeft
             /\ rightParsed' = parsedRight
             /\ diffEntries' = entries
             /\ diffId' = Len(entries)
     /\ UNCHANGED <<leftInput, rightInput, leftTyped, rightTyped, foldVars, anchor, patchVars>>

compareJson ==
  LET lErr == NonBlank(leftInput) /\ ParseThrows(leftInput)
      rErr == NonBlank(rightInput) /\ ParseThrows(rightInput)
      parsedLeft == ParseOrNull(leftInput)
      parsedRight == ParseOrNull(rightInput)
      entries == buildDiff(parsedLeft, parsedRight)
  IN /\ leftError' = lErr
     /\ rightError' = rErr
     /\ hasCompared' = TRUE
     /\ last' = Last("compare", NoEntry, "none", Len(diffEntries))
     /\ IF lErr \/ rErr
        THEN /\ diffEntries' = <<>>
             /\ UNCHANGED <<leftParsed, rightParsed, diffId>>
        ELSE /\ leftParsed' = parsedLeft
             /\ rightParsed' = parsedRight
             /\ diffEntries' = entries
             /\ diffId' = Len(entries)
     /\ UNCHANGED <<leftInput, rightInput, leftTyped, rightTyped, foldVars, anchor, patchVars>>

\* The tree of the chosen side after the patch of applyChange.
applyToLeft_OwnValue(tree, entry) ==
  IF entry.status = "removed"
  THEN removeValueAtPath(tree, entry.path)
  ELSE setValueAtPath(tree, entry.path, entry.valueLeft)
applyToLeft(tree, entry) ==
  IF entry.status = "removed"
  THEN removeValueAtPath(tree, entry.path)
  ELSE setValueAtPath(tree, entry.path, entry.valueRight)

applyToRight_KeepAdded(tree, entry) ==
  setValueAtPath(tree, entry.path,
                 IF entry.status = "added" THEN entry.valueRight ELSE entry.valueLeft)
applyToRight(tree, entry) ==
  IF entry.status = "added"
  THEN removeValueAtPath(tree, entry.path)
  ELSE setValueAtPath(tree, entry.path, entry.valueLeft)

NullIfUndefined(v) == IF IsUndefined(v) THEN Null ELSE v

applyChange_DropRow(entry, direction) ==
  /\ hasDiffs
  /\ LET newLeft == IF direction = "left"
                    THEN NullIfUndefined(applyToLeft(leftParsed, entry))
                    ELSE leftParsed
         newRight == IF direction = "right"
                     THEN NullIfUndefined(applyToRight(rightParsed, entry))
                     ELSE rightParsed
         entries == SelectSeq(diffEntries, LAMBDA e : e # entry)
     IN /\ leftParsed' = newLeft
        /\ rightParsed' = newRight
        /\ leftInput' = stringifyJson(newLeft)
        /\ rightInput' = stringifyJson(newRight)
        /\ diffEntries' = entries
        /\ diffId' = Len(entries)
        /\ last' = Last("apply", entry, direction, Len(diffEntries))
  /\ UNCHANGED <<leftError, rightError, hasCompared, leftTyped, rightTyped, foldVars,
                 patchVars>>

\* applyChange(entry, direction): it returns at once when the list is empty.
applyChange(entry, direction) ==
  IF ~hasDiffs
  THEN /\ last' = Last("applyNoDiffs", entry, direction, Len(diffEntries))
       /\ UNCHANGED <<leftInput, rightInput, leftError, rightError, diffEntries,
                      hasCompared, leftParsed, rightParsed, diffId, leftTyped,
                      rightTyped, foldVars, patchVars>>
  ELSE
  /\ LET newLeft == IF direction = "left"
                    THEN NullIfUndefined(applyToLeft(leftParsed, entry))
                    ELSE leftParsed
         newRight == IF direction = "right"
                     THEN NullIfUndefined(applyToRight(rightParsed, entry))
                     ELSE rightParsed
         entries == buildDiff(newLeft, newRight)
     IN /\ leftParsed' = newLeft
        /\ rightParsed' = newRight
        /\ leftInput' = stringifyJson(newLeft)
        /\ rightInput' = stringifyJson(newRight)
        /\ diffEntries' = entries
        /\ diffId' = Len(entries)
        /\ last' = Last("apply", entry, direction, Len(diffEntries))
  /\ UNCHANGED <<leftError, rightError, hasCompared, leftTyped, rightTyped, foldVars,
                 patchVars>>

Merge == \E i \in 1..Len(diffEntries) : \E direction \in {"left", "right"} :
           applyChange(diffEntries[i], direction)

\* applyChange called with a row of a list shown earlier, after a merge has
\* emptied the list.
StaleEntries ==
  {createEntry("added", <<Idx(0)>>, Undef, Num(1), 0),
   createEntry("removed", <<>>, Null, Undef, 0)}

MergeOnEmpty ==
  /\ hasCompared
  /\ diffEntries = <<>>
  /\ last.op = "apply"
  /\ \E entry \in StaleEntries : \E direction \in {"left", "right"} :
       applyChange(entry, direction)

Next ==
  \/ \E text \in Texts : EditLeft(text)
  \/ \E text \in Texts : EditRight(text)
  \/ compareJson
  \/ Merge /\ UNCHANGED anchor
  \/ MergeOnEmpty /\ UNCHANGED anchor

Spec == Init /\ [][Next]_vars

\* ------------------------------------------------- merging after one compare
\* Two arrays of scalars typed in, Compare pressed once, and then only merge
\* actions.  applyChange is a function of the pair held, the row and the
\* direction, and the rows are a function of the pair: a run of merges that
\* comes back to a pair it held before can repeat the same merges for ever.
InitMerging ==
  /\ hasStructuredClone \in BOOLEAN
  /\ anchor = NoAnchor
  /\ PatchIdle
  /\ \E l \in GenArrays : leftInput = JsonText(l)
  /\ \E r \in GenArrays : rightInput = JsonText(r)
  /\ leftError = FALSE
  /\ rightError = FALSE
  /\ diffEntries = <<>>
  /\ hasCompared = FALSE
  /\ leftParsed = Null
  /\ rightParsed = Null
  /\ diffId = 0
  /\ leftTyped = TRUE
  /\ rightTyped = TRUE
  /\ last = Last("init", NoEntry, "none", 0)
  /\ pending = {}
  /\ foldDir = "none"
  /\ foldLow = 0

\* A merge; the pair held before it may be kept as the anchor of the run.
MergeAnchored ==
  /\ Merge
  /\ \/ UNCHANGED anchor
     \/ /\ ~anchor.set
        /\ anchor' = [set |-> TRUE, left |-> leftParsed, right |-> rightParsed]

NextMerging ==
  \/ ~hasCompared /\ compareJson
  \/ MergeAnchored

SpecMerging == InitMerging /\ [][NextMerging]_vars

\* ------------------------------------------------------ buildDiff alone
\* Compare pressed once on two typed documents.
InitDiff ==
  /\ \E l \in DiffDocs : leftInput = JsonText(l)
  /\ \E r \in DiffDocs : rightInput = JsonText(r)
  /\ leftError = FALSE
  /\ rightError = FALSE
  /\ diffEntries = <<>>
  /\ hasCompared = FALSE
  /\ leftParsed = Null
  /\ rightParsed = Null
  /\ diffId = 0
  /\ leftTyped = TRUE
  /\ rightTyped = TRUE
  /\ last = Last("init", NoEntry, "none", 0)
  /\ pending = {}
  /\ foldDir = "none"
  /\ foldLow = 0
  /\ hasStructuredClone \in BOOLEAN
  /\ anchor = NoAnchor
  /\ PatchIdle

NextDiff == ~hasCompared /\ compareJson

SpecDiff == InitDiff /\ [][NextDiff]_vars

\* --------------------------------------------- one list applied entry by entry
\* The entries of buildDiff(A, B) taken once, and every one of them applied in
\* one direction, in any order, the list not recomputed in between.
InitFold ==
  /\ hasStructuredClone \in BOOLEAN
  /\ anchor = NoAnchor
  /\ PatchIdle
  /\ \E l \in Docs : leftParsed = l /\ leftInput = JsonText(l)
  /\ \E r \in Docs : rightParsed = r /\ rightInput = JsonText(r)
  /\ diffEntries = buildDiff(leftParsed, rightParsed)
  /\ diffId = Len(diffEntries)
  /\ pending = 1..Len(diffEntries)
  /\ foldDir \in {"left", "right"}
  /\ foldLow = Len(diffEntries) + 1
  /\ leftError = FALSE
  /\ rightError = FALSE
  /\ hasCompared = TRUE
  /\ leftTyped = TRUE
  /\ rightTyped = TRUE
  /\ last = Last("compare", NoEntry, "none", 0)

\* The entry removes a node when applied in the direction.
IsRemoval(entry, direction) ==
  \/ direction = "left" /\ entry.status = "removed"
  \/ direction = "right" /\ entry.status = "added"

FoldStep(i) ==
  /\ i \in pending
  /\ pending' = pending \ {i}
  /\ IF foldDir = "left"
     THEN /\ leftParsed' = NullIfUndefined(applyToLeft(leftParsed, diffEntries[i]))
          /\ UNCHANGED rightParsed
     ELSE /\ rightParsed' = NullIfUndefined(applyToRight(rightParsed, diffEntries[i]))
          /\ UNCHANGED leftParsed
  /\ foldLow' = IF IsRemoval(diffEntries[i], foldDir)
                THEN IF i < foldLow THEN i ELSE 0
                ELSE foldLow
  /\ last' = Last("apply", diffEntries[i], foldDir, Len(diffEntries))
  /\ UNCHANGED <<leftInput, rightInput, leftError, rightError, diffEntries,
                 hasCompared, diffId, leftTyped, rightTyped, foldDir,
                 hasStructuredClone, anchor, patchVars>>

NextFold == \E i \in 1..Len(diffEntries) : FoldStep(i)

SpecFold == InitFold /\ [][NextFold]_vars

\* ================================================================ properties
\* The node a path addresses in a tree, undefined when there is none.
RECURSIVE GetAtPath(_, _)
GetAtPath(tree, path) ==
  IF path = <<>> THEN tree
  ELSE IF ~isObjectLike(tree) THEN Undef
  ELSE GetAtPath(Get(tree, Head(path)), Tail(path))

Front(path) == SubSeq(path, 1, Len(path) - 1)
Final(path) == path[Len(path)]

\* The two trees look alike at a path: both have a node there and the two are
\* deep-equal, or neither has one.
LookAlike(left, right, path) ==
  LET l == GetAtPath(left, path)
      r == GetAtPath(right, path)
  IN \/ IsUndefined(l) /\ IsUndefined(r)
     \/ ~IsUndefined(l) /\ ~IsUndefined(r) /\ isDeepEqual(l, r)

NoEntryAt(entries, path) == \A i \in 1..Len(entries) : entries[i].path # path

Removals(entries, direction) ==
  {i \in 1..Len(entries) : IsRemoval(entries[i], direction)}

\* ------------------------------------------- the patch applier called alone
\* setValueAtPath and removeValueAtPath called on a tree, a path and a value,
\* and then called once more: the same set again, or the removed node set back.
\* The longest path the applier is called with.
MaxDepth == 2

\* Arrays with empty slots, as setValueAtPath returns them after a write past
\* the end; with undefined elements, as the spread of a structuredClone copy
\* of those leaves them.
SparseDocs ==
  {Arr(<<Hole, Null>>), Arr(<<Hole, Num(1)>>), Arr(<<Hole, Hole, Num(1)>>),
   Obj(<<KV("a", Arr(<<Hole, Num(1)>>))>>)}
UndefinedSlotDocs == {Arr(<<Undef>>), Arr(<<Undef, Num(1)>>)}

PatchTrees ==
  {Undef} \cup Docs \cup SparseDocs
    \cup (IF hasStructuredClone THEN UndefinedSlotDocs ELSE {})
PatchSegments == {Idx(i) : i \in 0..MaxLen} \cup {Key("a"), Key("b")}
PatchPaths == UNION {[1..n -> PatchSegments] : n \in 0..MaxDepth}
PatchValues ==
  {Null, Num(1), Num(3), Arr(<<Num(1)>>), Obj(<<KV("a", Num(3))>>)}

InitPatch ==
  /\ hasStructuredClone \in BOOLEAN
  /\ anchor = NoAnchor
  /\ pTree \in PatchTrees
  /\ pPrev = pTree
  /\ pOrig = pTree
  /\ pPath = <<>>
  /\ pValue = Null
  /\ pOp = "none"
  /\ leftInput = Blank
  /\ rightInput = Blank
  /\ leftError = FALSE
  /\ rightError = FALSE
  /\ diffEntries = <<>>
  /\ hasCompared = FALSE
  /\ leftParsed = Null
  /\ rightParsed = Null
  /\ diffId = 0
  /\ leftTyped = FALSE
  /\ rightTyped = FALSE
  /\ last = Last("init", NoEntry, "none", 0)
  /\ pending = {}
  /\ foldDir = "none"
  /\ foldLow = 0

viewVars ==
  <<leftInput, rightInput, leftError, rightError, diffEntries, hasCompared,
    leftParsed, rightParsed, diffId, leftTyped, rightTyped, last, foldVars, anchor>>

\* pTree = setValueAtPath(pTree, path, value)
PatchSet(path, value) ==
  /\ pOp = "none"
  /\ pPrev' = pTree
  /\ pTree' = setValueAtPath(pTree, path, value)
  /\ pPath' = path
  /\ pValue' = value
  /\ pOp' = "set"
  /\ UNCHANGED <<pOrig, viewVars>>

\* pTree = removeValueAtPath(pTree, path)
PatchRemove(path) ==
  /\ pOp = "none"
  /\ pPrev' = pTree
  /\ pTree' = removeValueAtPath(pTree, path)
  /\ pPath' = path
  /\ pOp' = "remove"
  /\ UNCHANGED <<pOrig, pValue, viewVars>>

\* The set just made, made again with the same path and value.
PatchSetAgain ==
  /\ pOp = "set"
  /\ pPrev' = pTree
  /\ pTree' = setValueAtPath(pTree, pPath, pValue)
  /\ pOp' = "setAgain"
  /\ UNCHANGED <<pOrig, pPath, pValue, viewVars>>

\* The node just removed set back: setValueAtPath(removed, p, getAtPath(T, p)).
PatchRestore ==
  /\ pOp = "remove"
  /\ ~IsUndefined(GetAtPath(pPrev, pPath))
  /\ pOrig' = pPrev
  /\ pPrev' = pTree
  /\ pValue' = GetAtPath(pPrev, pPath)
  /\ pTree' = setValueAtPath(pTree, pPath, GetAtPath(pPrev, pPath))
  /\ pOp' = "restore"
  /\ UNCHANGED <<pPath, viewVars>>

NextPatch ==
  \/ \E path \in PatchPaths : \E value \in PatchValues : PatchSet(path, value)
  \/ \E path \in PatchPaths : PatchRemove(path)
  \/ PatchSetAgain
  \/ PatchRestore

SpecPatch == InitPatch /\ [][NextPatch]_vars

ShiftingRemoval ==
  /\ IsRemoval(last.entry, last.direction)
  /\ last.entry.path # <<>>
  /\ Final(last.entry.path).isIdx
  /\ LET tree == IF last.direction = "left" THEN leftParsed ELSE rightParsed
         parent == GetAtPath(tree, Front(last.entry.path))
     IN isArray(parent) /\ Len(parent.a) > Final(last.entry.path).idx

AlikeAtMergedPath ==
  /\ LookAlike(leftParsed, rightParsed, last.entry.path)
  /\ NoEntryAt(diffEntries, last.entry.path)

\* C2 as claimed: after applyChange(entry, direction) the two trees look alike
\* at entry.path and the recomputed list has no entry at entry.path, for every
\* status, array indices included.
C2_MergeMakesPathAlike == last.op = "apply" => AlikeAtMergedPath

\* C2 amended: the same, except when the merge removed an array element that
\* was not the last of its array (the elements after it shift down by one).
C2_MergeMakesPathAlikeUnlessShift ==
  (last.op = "apply" /\ ~ShiftingRemoval) => AlikeAtMergedPath

\* A merge that removed the last element of an array, other rows remaining.
C2_Witness ==
  /\ last.op = "apply"
  /\ ~ShiftingRemoval
  /\ IsRemoval(last.entry, last.direction)
  /\ Final(last.entry.path).isIdx
  /\ hasDiffs

\* ---------------------------------------------------------------- C3
\* C3 as claimed: from a successfully compared pair, merge actions applied one
\* after the other, each to a row of the current list in either direction,
\* reach an empty list after finitely many actions and no run of merge
\* actions goes on for ever: a run of merges never holds again a pair it held
\* before one of its merges.
C3_NoMergeRunReturns ==
  ~(anchor.set /\ leftParsed = anchor.left /\ rightParsed = anchor.right)

\* ---------------------------------------------------------------- C4
NoError == ~leftError /\ ~rightError

\* C4 as claimed: the diff of the held pair is empty if and only if the two
\* trees are deep-equal.
C4_EmptyIffDeepEqual ==
  (buildDiff(leftParsed, rightParsed) = <<>>) <=> isDeepEqual(leftParsed, rightParsed)

\* ---------------------------------------------------------------- C5
EntryWellFormed(e) ==
  LET l == GetAtPath(leftParsed, e.path)
      r == GetAtPath(rightParsed, e.path)
  IN CASE e.status = "added" ->
            /\ IsUndefined(e.valueLeft)
            /\ IsUndefined(l)
            /\ ~IsUndefined(r) /\ isDeepEqual(e.valueRight, r)
       [] e.status = "removed" ->
            /\ IsUndefined(e.valueRight)
            /\ IsUndefined(r)
            /\ ~IsUndefined(l) /\ isDeepEqual(e.valueLeft, l)
       [] e.status = "modified" ->
            /\ ~IsUndefined(e.valueLeft) /\ ~IsUndefined(e.valueRight)
            /\ ~IsUndefined(l) /\ isDeepEqual(e.valueLeft, l)
            /\ ~IsUndefined(r) /\ isDeepEqual(e.valueRight, r)
            /\ ~isDeepEqual(e.valueLeft, e.valueRight)
       [] OTHER -> FALSE

\* C5: in every list shown, an Added entry has no left value and no node at its
\* path in the left tree, and carries the node of the right tree; a Removed
\* entry is the mirror; a Modified entry carries the nodes of both trees at its
\* path, which are not deep-equal.
C5_EntriesWellFormed ==
  \A i \in 1..Len(diffEntries) : EntryWellFormed(diffEntries[i])

HasStatus(status) == \E i \in 1..Len(diffEntries) : diffEntries[i].status = status

\* A list recomputed by a merge that holds an Added and a Removed entry; a list
\* made by Compare that holds a Modified entry below the root.
C5_Witness ==
  /\ last.op = "apply"
  /\ HasStatus("added") /\ HasStatus("removed")

\* ---------------------------------------------------------------- C6
Mirror(e, f) ==
  /\ e.path = f.path
  /\ \/ e.status = "added" /\ f.status = "removed" /\ f.valueLeft = e.valueRight
     \/ e.status = "removed" /\ f.status = "added" /\ f.valueRight = e.valueLeft
     \/ /\ e.status = "modified" /\ f.status = "modified"
        /\ f.valueLeft = e.valueRight /\ f.valueRight = e.valueLeft

\* C6: the diff of the held pair and the diff of the pair with its sides
\* swapped have the same length, and each entry of one has its mirror in the
\* other: Added against Removed with the same value, Modified against Modified
\* with the values swapped.
C6_AntiSymmetry ==
  LET d == buildDiff(leftParsed, rightParsed)
      s == buildDiff(rightParsed, leftParsed)
  IN /\ Len(d) = Len(s)
     /\ \A i \in 1..Len(d) : \E j \in 1..Len(s) : Mirror(d[i], s[j])
     /\ \A j \in 1..Len(s) : \E i \in 1..Len(d) : Mirror(d[i], s[j])

\* A compared pair whose diff holds an Added and a Modified entry.
C6_Witness ==
  /\ hasCompared /\ NoError
  /\ HasStatus("added") /\ HasStatus("modified")

\* ---------------------------------------------------------------- C7
ScalarArray(v) ==
  /\ isArray(v)
  /\ v.o = <<>>
  /\ \A i \in 1..Len(v.a) : v.a[i].t \in {"null", "bool", "num", "str"}

Strip(e) ==
  [status |-> e.status, path |-> e.path, valueLeft |-> e.valueLeft,
   valueRight |-> e.valueRight]
Stripped(entries) == [i \in 1..Len(entries) |-> Strip(entries[i])]
Row(status, path, valueLeft, valueRight) ==
  [status |-> status, path |-> path, valueLeft |-> valueLeft, valueRight |-> valueRight]

\* The rows of two arrays of scalars compared position by position.
PositionalRows(L, R) ==
  LET n == IF Len(L.a) > Len(R.a) THEN Len(L.a) ELSE Len(R.a)
      differs(i) == ~(i <= Len(L.a) /\ i <= Len(R.a) /\ L.a[i] = R.a[i])
      at == SelectSeq([i \in 1..n |-> i], differs)
      row(i) == IF i <= Len(L.a) /\ i <= Len(R.a)
                THEN Row("modified", <<Idx(i - 1)>>, L.a[i], R.a[i])
                ELSE IF i <= Len(R.a)
                THEN Row("added", <<Idx(i - 1)>>, Undef, R.a[i])
                ELSE Row("removed", <<Idx(i - 1)>>, L.a[i], Undef)
  IN [j \in 1..Len(at) |-> row(at[j])]

\* C7: the diff of two arrays of scalars is one Modified entry at each index
\* both have with different values, one Added entry at each index only the
\* right has, one Removed entry at each index only the left has, in ascending
\* order and nothing else; for [1,2,3] against [0,1,2,3] it is Modified at 0
\* (1, 0), at 1 (2, 1), at 2 (3, 2) and Added at 3 (3).
C7_PositionalArrayDiff ==
  /\ (hasCompared /\ ScalarArray(leftParsed) /\ ScalarArray(rightParsed))
       => Stripped(diffEntries) = PositionalRows(leftParsed, rightParsed)
  /\ (hasCompared /\ leftParsed = DocLeft123 /\ rightParsed = DocRight0123)
       => Stripped(diffEntries) =
            <<Row("modified", <<Idx(0)>>, Num(1), Num(0)),
              Row("modified", <<Idx(1)>>, Num(2), Num(1)),
              Row("modified", <<Idx(2)>>, Num(3), Num(2)),
              Row("added", <<Idx(3)>>, Undef, Num(3))>>

C7_Witness ==
  /\ hasCompared
  /\ leftParsed = DocLeft123 /\ rightParsed = DocRight0123
  /\ Len(diffEntries) > 0

\* ---------------------------------------------------------------- C8
\* The paths of the nodes of a tree.
RECURSIVE PathsOf(_)
PathsOf(v) ==
  IF IsUndefined(v) THEN {}
  ELSE IF ~isObjectLike(v) THEN {<<>>}
  ELSE LET keys == ObjectKeys(v)
       IN {<<>>} \cup UNION {{<<keys[i]>> \o q : q \in PathsOf(Get(v, keys[i]))} :
                              i \in 1..Len(keys)}

IsProperPrefix(p, q) == Len(p) < Len(q) /\ SubSeq(q, 1, Len(p)) = p

SameKindContainers(l, r) ==
  \/ l.t = "arr" /\ r.t = "arr"
  \/ l.t = "obj" /\ r.t = "obj"

Collapsed(p) ==
  LET l == GetAtPath(leftParsed, p)
      r == GetAtPath(rightParsed, p)
      at == {i \in 1..Len(diffEntries) : diffEntries[i].path = p}
  IN /\ Cardinality(at) = 1
     /\ \A i \in at : Strip(diffEntries[i]) = Row("modified", p, l, r)
     /\ \A i \in 1..Len(diffEntries) : ~IsProperPrefix(p, diffEntries[i].path)

TypeChangeAt(p) ==
  LET l == GetAtPath(leftParsed, p)
      r == GetAtPath(rightParsed, p)
  IN ~isDeepEqual(l, r) /\ ~SameKindContainers(l, r)

\* C8: at every path where both trees have a node, the two not deep-equal and
\* not containers of one kind, the list holds exactly one entry, Modified, with
\* the two whole nodes, and no entry below that path; {a:1} against [1] gives
\* the single Modified entry at the root.
C8_TypeChangeCollapse ==
  NoError =>
    /\ \A p \in PathsOf(leftParsed) \cap PathsOf(rightParsed) :
         TypeChangeAt(p) => Collapsed(p)
    /\ (leftParsed = DocObjA1 /\ rightParsed = DocArr1)
         => Stripped(diffEntries) = <<Row("modified", <<>>, DocObjA1, DocArr1)>>

\* An object against an array at the root, compared.
C8_Witness ==
  /\ hasCompared /\ NoError
  /\ leftParsed = DocObjA1 /\ rightParsed = DocArr1
  /\ Len(diffEntries) = 1

\* An array against an object below the root, after a merge elsewhere.
C8_WitnessNested ==
  /\ last.op = "apply"
  /\ \E p \in PathsOf(leftParsed) \cap PathsOf(rightParsed) :
       /\ p # <<>>
       /\ TypeChangeAt(p)
       /\ isObjectLike(GetAtPath(leftParsed, p))
       /\ isObjectLike(GetAtPath(rightParsed, p))

\* ---------------------------------------------------------------- C9
\* The length of the common prefix of two paths.
RECURSIVE CommonLen(_, _)
CommonLen(p, q) ==
  IF p = <<>> \/ q = <<>> THEN 0
  ELSE IF Head(p) # Head(q) THEN 0
  ELSE 1 + CommonLen(Tail(p), Tail(q))

\* The place of a key in the visit of two objects: the keys of the left in
\* their order, then the keys only the right has, in their order.
KeyPlace(lo, ro, k) ==
  IF PropPos(lo, k) # 0 THEN PropPos(lo, k) ELSE Len(lo) + PropPos(ro, k)

\* Entry e comes before entry f in the depth-first visit of the two trees.
VisitedBefore(e, f) ==
  LET n == CommonLen(e.path, f.path)
      parent == SubSeq(e.path, 1, n)
      lp == GetAtPath(leftParsed, parent)
      rp == GetAtPath(rightParsed, parent)
  IN /\ n < Len(e.path) /\ n < Len(f.path)
     /\ IF isArray(lp)
        THEN e.path[n + 1].idx < f.path[n + 1].idx
        ELSE KeyPlace(lp.o, rp.o, SegName(e.path[n + 1]))
               < KeyPlace(lp.o, rp.o, SegName(f.path[n + 1]))

\* C9 as claimed: every list shown is in depth-first visit order, the indices
\* under a common array parent ascending, the keys under a common object
\* parent the left's first and then the right-only ones.
C9_DepthFirstOrder ==
  \A i, j \in 1..Len(diffEntries) :
    i < j => VisitedBefore(diffEntries[i], diffEntries[j])

\* ---------------------------------------------------------------- C10
CountOf(status) ==
  Cardinality({i \in 1..Len(diffEntries) : diffEntries[i].status = status})

\* C10: the summary counts the entries of the current list by status and the
\* three counts add up to its length; for the scenario pair the list is
\* Modified at b.c (2, 3), Added at d (4) and the summary is 1, 0, 1.
C10_SummaryIsFold ==
  /\ diffSummary.added = CountOf("added")
  /\ diffSummary.removed = CountOf("removed")
  /\ diffSummary.modified = CountOf("modified")
  /\ diffSummary.added + diffSummary.removed + diffSummary.modified = Len(diffEntries)
  /\ (NoError /\ leftParsed = DocScenarioLeft /\ rightParsed = DocScenarioRight)
       => /\ Stripped(diffEntries) =
               <<Row("modified", <<Key("b"), Key("c")>>, Num(2), Num(3)),
                 Row("added", <<Key("d")>>, Undef, Num(4))>>
          /\ diffSummary = [added |-> 1, removed |-> 0, modified |-> 1]

\* The scenario pair, compared.
C10_Witness ==
  /\ hasCompared /\ NoError
  /\ leftParsed = DocScenarioLeft /\ rightParsed = DocScenarioRight
  /\ Len(diffEntries) = 2

\* A list after a merge with two entries of one status.
C10_WitnessMerged ==
  /\ last.op = "apply"
  /\ \E status \in {"added", "removed", "modified"} : CountOf(status) >= 2

\* ---------------------------------------------------------------- C11
\* The value is one JSON.parse returns: no empty slot, no undefined, no
\* string-keyed property on an array.
RECURSIVE IsJson(_)
IsJson(v) ==
  CASE v.t \in {"null", "bool", "num", "str"} -> TRUE
    [] v.t = "arr" -> v.o = <<>> /\ \A i \in 1..Len(v.a) : IsJson(v.a[i])
    [] v.t = "obj" -> \A i \in 1..Len(v.o) : IsJson(v.o[i].v)
    [] OTHER -> FALSE

\* The path addresses an existing leaf of the tree.
IsLeafAt(tree, path) ==
  /\ path # <<>>
  /\ GetAtPath(tree, path).t \in {"null", "bool", "num", "str"}

\* The path ends at an element of an array that is not its last element.
EndsBeforeLastElement(tree, path) ==
  /\ path # <<>>
  /\ LET parent == GetAtPath(tree, Front(path))
     IN /\ isArray(parent)
        /\ Final(path).isIdx
        /\ Final(path).idx + 1 < Len(parent.a)

IsJsonOrAbsent(v) == IsUndefined(v) \/ IsJson(v)

\* C12 as claimed: for every tree T (absent and scalar roots included), path p
\* and value v, setValueAtPath(setValueAtPath(T, p, v), p, v) is deep-equal to
\* setValueAtPath(T, p, v).
C12_SetIsIdempotent ==
  (pOp = "setAgain" /\ IsJsonOrAbsent(pOrig)) => isDeepEqual(pTree, pPrev)

\* ---------------------------------------------------------------- C13
\* The structural reference: two scalars of one kind and value; two objects
\* with the same key set and equal values under every key; two arrays of the
\* same length with equal elements at every position.
RECURSIVE StructurallyEqual(_, _)
StructurallyEqual(a, b) ==
  IF a.t # b.t THEN FALSE
  ELSE IF a.t = "arr"
  THEN /\ Len(a.a) = Len(b.a)
       /\ \A i \in 1..Len(a.a) : StructurallyEqual(a.a[i], b.a[i])
       /\ {a.o[i].k : i \in 1..Len(a.o)} = {b.o[i].k : i \in 1..Len(b.o)}
       /\ \A i \in 1..Len(a.o) :
            StructurallyEqual(a.o[i].v, b.o[PropPos(b.o, a.o[i].k)].v)
  ELSE IF a.t = "obj"
  THEN /\ {a.o[i].k : i \in 1..Len(a.o)} = {b.o[i].k : i \in 1..Len(b.o)}
       /\ \A i \in 1..Len(a.o) :
            StructurallyEqual(a.o[i].v, b.o[PropPos(b.o, a.o[i].k)].v)
  ELSE a.n = b.n

\* C13: on the pair held, isDeepEqual is true exactly when the two values are
\* structurally equal (same scalar kind and value; objects with the same key
\* set, key order irrelevant, and equal values; arrays of the same length with
\* equal elements), values of different kinds are never equal, and the
\* relation is reflexive and symmetric.
C13_DeepEqualIsStructural ==
  /\ isDeepEqual(leftParsed, rightParsed) <=> StructurallyEqual(leftParsed, rightParsed)
  /\ leftParsed.t # rightParsed.t => ~isDeepEqual(leftParsed, rightParsed)
  /\ isDeepEqual(leftParsed, leftParsed)
  /\ isDeepEqual(rightParsed, rightParsed)
  /\ isDeepEqual(leftParsed, rightParsed) <=> isDeepEqual(rightParsed, leftParsed)

\* Two objects with the same keys in another order, compared and found equal.
C13_Witness ==
  /\ hasCompared /\ NoError
  /\ leftParsed.t = "obj"
  /\ Len(leftParsed.o) = 2
  /\ leftParsed # rightParsed
  /\ isDeepEqual(leftParsed, rightParsed)

\* Two arrays that differ after a merge.
C13_WitnessArrays ==
  /\ last.op = "apply"
  /\ isArray(leftParsed) /\ isArray(rightParsed)
  /\ Len(leftParsed.a) = Len(rightParsed.a)
  /\ ~isDeepEqual(leftParsed, rightParsed)

\* ---------------------------------------------------------------- C14
\* C14 as claimed: after a merge the text of each side parses to a value
\* deep-equal to the tree of that side, and Compare pressed at once would show
\* the list that is shown.
C14_TextsInSyncAfterMerge ==
  last.op = "apply" =>
    /\ isDeepEqual(ParseOrNull(leftInput), leftParsed)
    /\ isDeepEqual(ParseOrNull(rightInput), rightParsed)
    /\ buildDiff(ParseOrNull(leftInput), ParseOrNull(rightInput)) = diffEntries

\* ---------------------------------------------------------------- C15
\* C15: after compareJson the error of a side is set exactly when the text of
\* that side is not blank and not JSON, each side on its own, and the list is
\* empty when one is set; in every state where an error is set the list is
\* empty, so that applyChange returns at its guard and changes nothing.
C15_ParseFailureShortCircuits ==
  /\ last.op = "compare" =>
       /\ leftError <=> (NonBlank(leftInput) /\ ParseThrows(leftInput))
       /\ rightError <=> (NonBlank(rightInput) /\ ParseThrows(rightInput))
  /\ (leftError \/ rightError) => (diffEntries = <<>> /\ ~hasDiffs)

\* A compare that failed on the right side only, after a compare that had
\* shown rows: the list is cleared and the pair of the first compare is kept.
C15_Witness ==
  /\ last.op = "compare"
  /\ rightError /\ ~leftError
  /\ last.before > 0
  /\ leftParsed # Null

\* A compare that failed on both sides.
C15_WitnessBoth == last.op = "compare" /\ leftError /\ rightError

\* ---------------------------------------------------------------- C16
\* C16: in every state in which no parse error is set (at the start, after a
\* successful compareJson, after every applyChange) the list shown is
\* buildDiff(leftParsed, rightParsed) computed from scratch.
C16_ListIsFullDiff ==
  NoError => diffEntries = buildDiff(leftParsed, rightParsed)

\* A merge that left rows to show.
C16_Witness ==
  /\ last.op = "apply"
  /\ NoError
  /\ Len(diffEntries) >= 2

\* ---------------------------------------------------------------- C17
\* Neither path is a prefix of the other.
Unrelated(p, q) ==
  /\ p # q
  /\ ~IsProperPrefix(p, q)
  /\ ~IsProperPrefix(q, p)

\* Every existing node along the path is a container of the kind the next
\* segment expects: an array for an index, an object for a key.
PathFits(tree, path) ==
  \A n \in 0..(Len(path) - 1) :
    LET node == GetAtPath(tree, SubSeq(path, 1, n))
    IN \/ IsUndefined(node)
       \/ IF path[n + 1].isIdx THEN isArray(node) ELSE node.t = "obj"

\* The result of the set is the tree it was given except at the path.
SetFrame ==
  /\ isDeepEqual(GetAtPath(pTree, pPath), pValue)
  /\ \A q \in PathsOf(pPrev) \cup PathsOf(pTree) :
       Unrelated(pPath, q) => LookAlike(pTree, pPrev, q)

\* C17: when every existing node along p is a container of the kind the next
\* segment expects, the node at p in setValueAtPath(root, p, v) is deep-equal
\* to v, and at every path q that is neither a prefix of p nor below p the
\* result has a node iff root has one, the two deep-equal.
C17_SetChangesOnlyThePath ==
  (pOp = "set" /\ PathFits(pPrev, pPath)) => SetFrame

\* The same for a root that is absent or has no empty slot.
C17_SetChangesOnlyThePathOfJson ==
  (pOp = "set" /\ IsJsonOrAbsent(pPrev) /\ PathFits(pPrev, pPath)) => SetFrame

\* A set at a path of two segments into a tree that has other nodes.
C17_Witness ==
  /\ pOp = "set"
  /\ IsJson(pPrev)
  /\ PathFits(pPrev, pPath)
  /\ Len(pPath) = 2
  /\ \E q \in PathsOf(pPrev) : Unrelated(pPath, q)
  /\ pTree # pPrev

\* ---------------------------------------------------------------- C18
\* The node is a container of the kind the segment expects.
KindFits(node, seg) == IF seg.isIdx THEN isArray(node) ELSE node.t = "obj"

\* The lengths of the prefixes of the path at which the tree has a node of a
\* kind the next segment does not expect.
ConflictsAt(tree, path) ==
  {n \in 0..(Len(path) - 1) :
     LET node == GetAtPath(tree, SubSeq(path, 1, n))
     IN ~IsUndefined(node) /\ ~KindFits(node, path[n + 1])}

FirstConflict(tree, path) ==
  CHOOSE n \in ConflictsAt(tree, path) : \A m \in ConflictsAt(tree, path) : n <= m

\* The containers synthesized along a path, holding the value and nothing
\* else: an array for an index segment, an object for a key segment.
RECURSIVE Synthesized(_, _)
Synthesized(path, value) ==
  IF path = <<>> THEN value
  ELSE IF Head(path).isIdx
  THEN Arr([i \in 1..(Head(path).idx + 1) |->
              IF i = Head(path).idx + 1 THEN Synthesized(Tail(path), value)
              ELSE Hole])
  ELSE Obj(<<KV(Head(path).key, Synthesized(Tail(path), value))>>)

\* The first conflicting node of the tree given to the set was replaced.
ConflictReplaced ==
  LET n == FirstConflict(pPrev, pPath)
      node == GetAtPath(pTree, SubSeq(pPath, 1, n))
  IN /\ KindFits(node, pPath[n + 1])
     /\ isDeepEqual(node, Synthesized(SubSeq(pPath, n + 1, Len(pPath)), pValue))
     /\ isDeepEqual(GetAtPath(pTree, pPath), pValue)

\* C18: when setValueAtPath meets an existing node whose kind disagrees with
\* the next segment (an object at an index, an array at a key, a scalar at
\* either), the node is overwritten by a new container of the segment's kind
\* that holds only the written path, and the value is at the path.
C18_ConflictIsReplaced ==
  (pOp = "set" /\ ConflictsAt(pPrev, pPath) # {}) => ConflictReplaced

\* The same where the conflicting node is a scalar.
C18_ScalarIsReplaced ==
  (/\ pOp = "set"
   /\ ConflictsAt(pPrev, pPath) # {}
   /\ ~isObjectLike(GetAtPath(pPrev, SubSeq(pPath, 1, FirstConflict(pPrev, pPath)))))
  => ConflictReplaced

\* A set through a scalar below the root.
C18_WitnessScalar ==
  /\ pOp = "set"
  /\ ConflictsAt(pPrev, pPath) # {}
  /\ FirstConflict(pPrev, pPath) = 1
  /\ ~isObjectLike(GetAtPath(pPrev, SubSeq(pPath, 1, 1)))

\* ---------------------------------------------------------------- C19
\* The set wrote at or past the end of an existing array.
OutOfRangeWrite ==
  /\ pOp = "set"
  /\ pPath # <<>>
  /\ ConflictsAt(pPrev, pPath) = {}
  /\ Final(pPath).isIdx
  /\ isArray(GetAtPath(pPrev, Front(pPath)))
  /\ Final(pPath).idx >= Len(GetAtPath(pPrev, Front(pPath)).a)

ArrayDocs == {d \in Docs : isArray(d)}

\* The entries of a list at a path, by status.
StatusesAt(entries, path) ==
  {entries[j].status : j \in {m \in 1..Len(entries) : entries[m].path = path}}

\* The array written past its end: its length, its old elements, the value and
\* the gap, and what a diff against a filled array says about the gap.
WrittenWithoutFilling ==
  LET before == GetAtPath(pPrev, Front(pPath))
      after == GetAtPath(pTree, Front(pPath))
      n == Len(before.a)
      i == Final(pPath).idx
  IN /\ isArray(after)
     /\ Len(after.a) = i + 1
     /\ \A k \in 0..(n - 1) : LookAlike(after, before, <<Idx(k)>>)
     /\ isDeepEqual(Read(after.a[i + 1]), pValue)
     /\ \A k \in n..(i - 1) : after.a[k + 1] = Hole
     /\ \A other \in ArrayDocs : \A k \in n..(i - 1) :
          HasKey(other, Idx(k)) =>
            /\ StatusesAt(buildDiff(after, other), <<Idx(k)>>) = {"added"}
            /\ StatusesAt(buildDiff(other, after), <<Idx(k)>>) = {"removed"}

\* C19: setValueAtPath on an array of length n with a final index i >= n gives
\* an array of length i+1 with elements 0..n-1 unchanged, the value at i and
\* positions n..i-1 absent (not Null); a diff against an array that has values
\* at those positions reports them as added or removed, not modified.
C19_OutOfRangeWriteLeavesGap == OutOfRangeWrite => WrittenWithoutFilling

\* The same for an array in a tree that has no empty slot.
C19_OutOfRangeWriteLeavesGapOfJson ==
  (OutOfRangeWrite /\ IsJson(pPrev)) => WrittenWithoutFilling

\* A write two places past the end of an array that has an element.
C19_Witness ==
  /\ OutOfRangeWrite
  /\ IsJson(pPrev)
  /\ Len(GetAtPath(pPrev, Front(pPath)).a) = 1
  /\ Final(pPath).idx = 2

\* ---------------------------------------------------------------- C20
\* Two reads of a slot or property look alike: both undefined, or both values
\* and deep-equal.
ReadAlike(x, y) ==
  \/ IsUndefined(x) /\ IsUndefined(y)
  \/ ~IsUndefined(x) /\ ~IsUndefined(y) /\ isDeepEqual(x, y)

\* The array lost the element at the index: the ones before it stay, the ones
\* after it shift down by one, the length drops by one.
ElementRemoved(before, after, i) ==
  /\ isArray(after)
  /\ Len(after.a) = Len(before.a) - 1
  /\ \A k \in 1..Len(after.a) :
       ReadAlike(Read(after.a[k]), Read(before.a[IF k <= i THEN k ELSE k + 1]))

\* The object lost the key and nothing else.
KeyRemoved(before, after, seg) ==
  /\ after.t = "obj"
  /\ ObjectKeys(after) = SelectSeq(ObjectKeys(before), LAMBDA k : k # seg)
  /\ \A j \in 1..Len(ObjectKeys(after)) :
       ReadAlike(Get(after, ObjectKeys(after)[j]), Get(before, ObjectKeys(after)[j]))

\* The tree given to the removal, with the node at the path taken out of its
\* parent and every node outside the parent as it was.
NodeRemoved ==
  LET parent == Front(pPath)
      before == GetAtPath(pPrev, parent)
      after == GetAtPath(pTree, parent)
  IN /\ IF isArray(before) THEN ElementRemoved(before, after, Final(pPath).idx)
        ELSE KeyRemoved(before, after, Final(pPath))
     /\ \A q \in PathsOf(pPrev) \cup PathsOf(pTree) :
          Unrelated(parent, q) => LookAlike(pTree, pPrev, q)
     /\ \A n \in 0..(Len(parent) - 1) :
          LET r == SubSeq(parent, 1, n)
          IN /\ GetAtPath(pTree, r).t = GetAtPath(pPrev, r).t
             /\ ObjectKeys(GetAtPath(pTree, r)) = ObjectKeys(GetAtPath(pPrev, r))

RemoveCases ==
  IF pPath = <<>> THEN pTree = Null
  ELSE IF ~IsUndefined(GetAtPath(pPrev, pPath)) THEN NodeRemoved
  ELSE isDeepEqual(pTree, pPrev)

\* C20: removeValueAtPath(T, p) is Null for the empty path; for a path to an
\* existing node it is T without that node (an array parent shifts its later
\* elements down and is one shorter, an object parent loses only that key)
\* and every other node unchanged; for a path to no node it is deep-equal to T.
C20_RemoveCases == pOp = "remove" => RemoveCases

\* The same for a tree that is absent or has no empty slot.
C20_RemoveCasesOfJson == (pOp = "remove" /\ IsJsonOrAbsent(pPrev)) => RemoveCases

\* An element that is not the last one was removed from a nested array.
C20_WitnessShift ==
  /\ pOp = "remove"
  /\ IsJson(pPrev)
  /\ Len(pPath) = 2
  /\ isArray(GetAtPath(pPrev, Front(pPath)))
  /\ ~IsUndefined(GetAtPath(pPrev, pPath))
  /\ Final(pPath).idx + 1 < Len(GetAtPath(pPrev, Front(pPath)).a)

\* A key was removed from an object that has another one.
C20_WitnessKey ==
  /\ pOp = "remove"
  /\ IsJson(pPrev)
  /\ pPath # <<>>
  /\ GetAtPath(pPrev, Front(pPath)).t = "obj"
  /\ ~IsUndefined(GetAtPath(pPrev, pPath))
  /\ Len(ObjectKeys(GetAtPath(pPrev, Front(pPath)))) = 2

\* A removal at a path that addresses nothing in a container.
C20_WitnessNoNode ==
  /\ pOp = "remove"
  /\ IsJson(pPrev)
  /\ isObjectLike(pPrev)
  /\ pPath # <<>>
  /\ IsUndefined(GetAtPath(pPrev, pPath))

\* ---------------------------------------------------------------- C21
\* `${status}-${path.join('.')}-${diffId++}`: the id as the string it is.
IdText(id) == id.status \o "-" \o id.joined \o "-" \o ToString(id.n)

\* C21: in the displayed list, whether compareJson or applyChange made it, no
\* two entries have the same path and no two entries have the same id.
C21_PathsAndIdsUnique ==
  \A i, j \in 1..Len(diffEntries) :
    i # j => /\ diffEntries[i].path # diffEntries[j].path
             /\ IdText(diffEntries[i].id) # IdText(diffEntries[j].id)

\* A list of two entries of one status made by a merge, and a list of three
\* entries made by a compare.
C21_Witness ==
  /\ last.op = "apply"
  /\ Len(diffEntries) >= 2
  /\ diffEntries[1].status = diffEntries[2].status

C21_WitnessCompare ==
  /\ last.op = "compare"
  /\ Len(diffEntries) >= 3

\* ---------------------------------------------------------------- C22
\* The step is a call of applyChange in the direction.
AppliedTo(direction) ==
  /\ last'.op \in {"apply", "applyNoDiffs"}
  /\ last'.direction = direction

\* C22: applyChange(entry, 'left') leaves rightParsed as it is and
\* applyChange(entry, 'right') leaves leftParsed as it is, for every entry;
\* called while the list is empty it changes neither tree, neither text, nor
\* the list.
C22_MergeChangesOnlyChosenSide ==
  [][/\ AppliedTo("left") => rightParsed' = rightParsed
     /\ AppliedTo("right") => leftParsed' = leftParsed
     /\ (diffEntries = <<>> /\ (AppliedTo("left") \/ AppliedTo("right")))
          => UNCHANGED <<leftParsed, rightParsed, leftInput, rightInput, diffEntries>>]_vars

\* A merge to the left that changed the left tree, the right one not null.
C22_Witness ==
  /\ last.op = "apply"
  /\ last.direction = "left"
  /\ isObjectLike(rightParsed)
  /\ last.entry.status # "removed"
  /\ isDeepEqual(GetAtPath(leftParsed, last.entry.path), last.entry.valueRight)

\* applyChange was called on an empty list with an entry that sets a value.
C22_WitnessEmpty ==
  /\ last.op = "applyNoDiffs"
  /\ last.entry.status = "added"
  /\ last.direction = "left"

\* ---------------------------------------------------------------- C23
\* C23: applyChange with any entry of the displayed list, in either direction,
\* leaves a recomputed list with strictly fewer entries than the list had
\* before.
C23_MergeShortensList ==
  last.op = "apply" => Len(diffEntries) < last.before

\* The same for a merge made while neither tree has an empty or undefined slot.
C23_MergeShortensListOfJson ==
  [][(last'.op = "apply" /\ IsJson(leftParsed) /\ IsJson(rightParsed))
       => Len(diffEntries') < Len(diffEntries)]_vars

\* ---------------------------------------------------------------- C24
\* The view reports the documents as identical: the list is empty after a
\* compare that parsed both texts, or after a merge.
ReportedIdentical ==
  /\ hasCompared
  /\ ~hasDiffs
  /\ \/ last.op = "compare" /\ NoError
     \/ last.op = "apply"

\* What JSON.parse reads back from the serialized text of a tree.
Reparsed(tree) == ParseOrNull(stringifyJson(tree))

\* C24: whenever the list is empty after a successful compare or after a
\* merge, re-parsing the serialized texts of the two trees gives deep-equal
\* values.
C24_IdenticalWhenReported ==
  ReportedIdentical => isDeepEqual(Reparsed(leftParsed), Reparsed(rightParsed))

\* The same in a runtime without structuredClone.
C24_IdenticalWhenReportedJsonClone ==
  (ReportedIdentical /\ ~hasStructuredClone)
    => isDeepEqual(Reparsed(leftParsed), Reparsed(rightParsed))
====
